---- MODULE Spec2Model ----
(***************************************************************************)
(* A model of lib/couchdb.js: the JSON-over-HTTP request executor          *)
(* (CouchDB.prototype.client), the existence probe (exists) and the        *)
(* document operations built on them (get, save, delete, ensureDB,         *)
(* createDB), run against a CouchDB-style server that keeps one database   *)
(* with one document and checks revisions on writes.                       *)
(***************************************************************************)
EXTENDS Integers, Sequences, FiniteSets, TLC

VARIABLES
    instance, \* the client's connection settings, parsed from its base URL
    store,    \* the server: does the database exist, the document and its revision
    ops,      \* per caller: the operation in progress, its requests and its outcome
    hist      \* per caller: what it keeps of the operation it finished last

vars == <<instance, store, ops, hist>>

(***************************************************************************)
(* Bounds                                                                  *)
(***************************************************************************)
\* the server stops accepting writes once the document's revision number reaches MaxRev
MaxRev == 3

\* a transport event that comes after the request's first one, per operation
MaxLate == 1

OpIds == {"a", "b"}
\* the caller that works alone
Solo == {"a"}

(***************************************************************************)
(* JavaScript values.  A string is the sequence of its characters.         *)
(***************************************************************************)
Undef == [t |-> "undefined", s |-> <<>>]
Null == [t |-> "null", s |-> <<>>]
JsTrue == [t |-> "boolean", s |-> <<"true">>]
JsFalse == [t |-> "boolean", s |-> <<"false">>]
Str(s) == [t |-> "string", s |-> s]
JsBool(b) == IF b THEN JsTrue ELSE JsFalse
Num(n) == [t |-> "number", s |-> <<>>, n |-> n]

\* the caller's doc object and the client instance, passed by reference
DocRef == [t |-> "ref", s |-> <<"doc">>]
ThatRef == [t |-> "ref", s |-> <<"this">>]

Keys == {"_id", "_rev", "name", "rev", "id", "error", "reason", "ok"}

NoFields == [k \in Keys |-> Undef]

\* an object: its members (Undef: no such member); cyclic: it refers to itself
Obj(f) == [t |-> "object", f |-> f, cyclic |-> FALSE]

\* JavaScript's truthiness: undefined, null, false and '' are falsy
Truthy(v) ==
    CASE v.t = "undefined" -> FALSE
      [] v.t = "null" -> FALSE
      [] v.t = "boolean" -> v = JsTrue
      [] v.t = "string" -> v.s # <<>>
      [] v.t = "number" -> v.n # 0
      [] OTHER -> TRUE

\* a || b
OrElse(a, b) == IF Truthy(a) THEN a ELSE b

\* member access v.k; a TypeError on null and undefined
CanRead(v) == v.t \notin {"undefined", "null"}
Member(v, k) == IF v.t = "object" THEN v.f[k] ELSE Undef

Quote == "\""
Digits == <<"1", "2", "3", "4", "5", "6", "7", "8", "9">>
\* the server's revision tokens, "1-a", "2-a", ...
Rev(n) == <<Digits[n], "-", "a">>
DocId == <<"d", "1">>
NameX == <<"x">>
NameY == <<"y">>

(***************************************************************************)
(* Texts on the wire: a JSON text carries the value it encodes; a text can *)
(* also be empty, or not JSON at all.                                      *)
(***************************************************************************)
EmptyText == [t |-> "empty", v |-> Null]
InvalidText == [t |-> "invalid", v |-> Null]
JsonText(v) == [t |-> "json", v |-> v]
\* the result of JSON.stringify(undefined), which is no string
NoText == [t |-> "none", v |-> Null]
RawText(s) == [t |-> "raw", v |-> Str(s)]

\* JSON.stringify throws on a circular structure
StringifyThrows(data) == data.t = "object" /\ data.cyclic

\* JSON.stringify leaving out the members of an object
Stringify_NoMembers(data) ==
    CASE data.t = "undefined" -> NoText
      [] data.t = "object" -> JsonText(Obj(NoFields))
      [] OTHER -> JsonText(data)

\* JSON.stringify(data): members whose value is undefined are left out
Stringify(data) ==
    CASE data.t = "undefined" -> NoText
      [] data.t = "object" -> JsonText(Obj(data.f))
      [] OTHER -> JsonText(data)

\* JSON.parse throws on a text that is not JSON
ParseThrows(text) == text.t \in {"invalid", "raw"}
JsonParse(text) == text.v

\* querystring.stringify(data): each member as key=value, '' for a value that is
\* no string
QsStringify(data) ==
    [k \in Keys |->
        IF Member(data, k) = Undef THEN Undef
        ELSE IF Member(data, k).t = "string" THEN Member(data, k)
        ELSE Str(<<>>)]

NoQuery == [t |-> "none", f |-> NoFields]
Query(data) == [t |-> "query", f |-> QsStringify(data)]

(***************************************************************************)
(* Requests, responses and errors                                          *)
(***************************************************************************)
\* instance.pathname of the client's base URL
Pathname == <<"/", "d", "b">>

\* path = (this.instance.pathname || '') + '/' + path
ResolvePath(path) == Pathname \o <<"/">> \o path

(***************************************************************************)
(* The constructor.  A base URL is given by its protocol and by the port   *)
(* it names, if it names one; url.parse yields the port as a string.       *)
(***************************************************************************)
HttpsPort == 443
HttpPort == 80
Hostname == <<"h">>
NamedPort == <<"5", "9", "8", "4">>

BaseUrls ==
    {[protocol |-> p, port |-> q] : p \in {"http:", "https:"}, q \in {Undef, Str(NamedPort)}}

\* url.parse(db_url)
UrlParse(db_url) ==
    [protocol |-> db_url.protocol, hostname |-> Str(Hostname), port |-> db_url.port,
     pathname |-> Str(Pathname), href |-> db_url]

\* the constructor leaving the port as url.parse gave it
CouchDB_NoDefault(db_url) == UrlParse(db_url)

\* new CouchDB(db_url): this.instance
CouchDB(db_url) ==
    LET ins == UrlParse(db_url)
    IN  IF ~Truthy(ins.port)
        THEN [ins EXCEPT !.port = IF ins.protocol = "https:" THEN Num(HttpsPort)
                                  ELSE Num(HttpPort)]
        ELSE ins

\* s.substr(start, len), start counted from 0; '' when len is not positive
Substr(s, start, len) ==
    SubSeq(s, start + 1, IF start + len > Len(s) THEN Len(s) ELSE start + len)

Response(status, etag, body) ==
    [t |-> "response", statusCode |-> status, etag |-> etag, body |-> body]

\* the exception JSON.stringify throws
StringifyError ==
    [t |-> "error", origin |-> "stringify", message |-> Str(<<"circular">>),
     error |-> Undef, reason |-> Undef, status |-> 0]

\* the error the client object emits when the connection fails
SocketError ==
    [t |-> "error", origin |-> "socket", message |-> Str(<<"ECONNREFUSED">>),
     error |-> Undef, reason |-> Undef, status |-> 0]

\* ServerError without err.error and err.reason
ServerError_NoCode(data, response) ==
    [t |-> "error", origin |-> "server",
     message |-> OrElse(Member(data, "reason"), Member(data, "error")),
     error |-> Undef, reason |-> Undef,
     status |-> response.statusCode]

\* new Error(data.reason || data.error) with err.error, err.reason, err.response
ServerError(data, response) ==
    [t |-> "error", origin |-> "server",
     message |-> OrElse(Member(data, "reason"), Member(data, "error")),
     error |-> Member(data, "error"), reason |-> Member(data, "reason"),
     status |-> response.statusCode]

\* new Error('Status code: ' + response.statusCode)
StatusError(response) ==
    [t |-> "error", origin |-> "status",
     message |-> Str(<<"Status code: ", ToString(response.statusCode)>>),
     error |-> Undef, reason |-> Undef, status |-> 0]

Pending == [ev |-> "pending", res |-> Undef, faithful |-> FALSE]
Ended(res, faithful) == [ev |-> "end", res |-> res, faithful |-> faithful]
Failed == [ev |-> "error", res |-> Undef, faithful |-> FALSE]

NoCall == [n |-> 0, err |-> Undef, a1 |-> Undef, a2 |-> Undef]

\* an operation that has not begun.  doc is the caller's object, doc0 what it held
\* at the call; probe is what exists reported; raced: another client wrote the
\* document while a request of the operation was in flight; stale: it did so
\* after the operation's requests were answered
Idle ==
    [kind |-> "idle", id |-> Undef, force |-> FALSE, doc |-> Undef, doc0 |-> Undef,
     rev |-> Undef,
     args |-> Undef, method |-> "", path |-> <<>>, reqs |-> <<>>, resps |-> <<>>,
     cb |-> NoCall, probe |-> NoCall, threw |-> FALSE, raced |-> FALSE, late |-> 0,
     stale |-> FALSE]

(***************************************************************************)
(* The caller's callback, and the callbacks the operations pass on         *)
(***************************************************************************)
\* the caller's callback is invoked with (err, a1, a2)
UserCb(op, err, a1, a2) ==
    [op EXCEPT !.cb = [n |-> @.n + 1, err |-> err, a1 |-> a1, a2 |-> a2]]

\* an exception nobody catches, thrown inside an event handler
Throw(op) == [op EXCEPT !.threw = TRUE]

RECURSIVE Callback(_, _, _, _, _)

\* Client reporting the exception of JSON.stringify and sending the request all
\* the same, without a body
Client_NoReturn(op, method, path, data, cont) ==
    LET isWrite == method \in {"POST", "PUT"}
        encode == isWrite /\ data.t # "string"
        threw == encode /\ StringifyThrows(data)
        op1 == IF threw THEN Callback(op, cont, StringifyError, Undef, Undef) ELSE op
        text == IF ~isWrite \/ threw THEN NoText
                ELSE IF encode THEN Stringify(data)
                ELSE RawText(data.s)
        req == [port |-> instance.port,
                host |-> instance.hostname,
                method |-> method,
                path |-> ResolvePath(path),
                query |-> IF ~isWrite /\ Truthy(data) THEN Query(data) ELSE NoQuery,
                ctype |-> isWrite,
                body |-> IF text.t = "raw" /\ text.v.s = <<>> THEN NoText ELSE text,
                cont |-> cont]
    IN  [op1 EXCEPT !.reqs = Append(@, req), !.resps = Append(@, Pending)]

\* CouchDB.prototype.client up to request.end(): the request is sent, or the
\* callback is invoked with the exception of JSON.stringify
Client(op, method, path, data, cont) ==
    LET isWrite == method \in {"POST", "PUT"}
        encode == isWrite /\ data.t # "string"
    IN  IF encode /\ StringifyThrows(data)
        THEN Callback(op, cont, StringifyError, Undef, Undef)
        ELSE LET text == IF ~isWrite THEN NoText
                         ELSE IF encode THEN Stringify(data)
                         ELSE RawText(data.s)
                 req == [port |-> instance.port,
                         host |-> instance.hostname,
                         method |-> method,
                         path |-> ResolvePath(path),
                         query |-> IF ~isWrite /\ Truthy(data)
                                   THEN Query(data) ELSE NoQuery,
                         ctype |-> isWrite,
                         body |-> IF text.t = "raw" /\ text.v.s = <<>>
                                  THEN NoText ELSE text,
                         cont |-> cont]
             IN  [op EXCEPT !.reqs = Append(@, req), !.resps = Append(@, Pending)]

\* SaveWriteCb sending the write again when it failed
SaveWriteCb_Retry(op, err, d) ==
    IF Truthy(err) THEN Client(op, op.method, op.path, op.doc, "user")
    ELSE IF ~CanRead(d) THEN Throw(op)
    ELSE UserCb([op EXCEPT !.doc.f["_id"] = Member(d, "id"),
                           !.doc.f["_rev"] = Member(d, "rev")],
                Null, DocRef, Undef)

\* SaveWriteCb taking the probed revision off doc again when the write failed
SaveWriteCb_Rollback(op, err, d) ==
    IF Truthy(err) THEN UserCb([op EXCEPT !.doc.f["_rev"] = Undef], err, Undef, Undef)
    ELSE IF ~CanRead(d) THEN Throw(op)
    ELSE UserCb([op EXCEPT !.doc.f["_id"] = Member(d, "id"),
                           !.doc.f["_rev"] = Member(d, "rev")],
                Null, DocRef, Undef)

\* the callback save passes to client for its write, on the force path
SaveWriteCb(op, err, d) ==
    IF Truthy(err) THEN UserCb(op, err, Undef, Undef)
    ELSE IF ~CanRead(d) THEN Throw(op)
    ELSE UserCb([op EXCEPT !.doc.f["_id"] = Member(d, "id"),
                           !.doc.f["_rev"] = Member(d, "rev")],
                Null, DocRef, Undef)

\* SaveProbeCb without doc._rev = rev
SaveProbeCb_NoStamp(op, err, exists, rev) ==
    IF Truthy(err) THEN UserCb(op, err, Undef, Undef)
    ELSE Client(op, op.method, op.path, op.doc, "save_write")

\* SaveProbeCb going on to the write although the probe reported an error
SaveProbeCb_IgnoreErr(op, err, exists, rev) ==
    LET op1 == IF Truthy(exists) THEN [op EXCEPT !.doc.f["_rev"] = rev] ELSE op
    IN  Client(op1, op1.method, op1.path, op1.doc, "save_write")

\* SaveProbeCb setting doc._rev = rev whether the document exists or not
SaveProbeCb_AlwaysStamp(op, err, exists, rev) ==
    IF Truthy(err) THEN UserCb(op, err, Undef, Undef)
    ELSE LET op1 == [op EXCEPT !.doc.f["_rev"] = rev]
         IN  Client(op1, op1.method, op1.path, op1.doc, "save_write")

\* the callback save passes to exists, on the force path
SaveProbeCb(op, err, exists, rev) ==
    IF Truthy(err) THEN UserCb(op, err, Undef, Undef)
    ELSE LET op1 == IF Truthy(exists) THEN [op EXCEPT !.doc.f["_rev"] = rev] ELSE op
         IN  Client(op1, op1.method, op1.path, op1.doc, "save_write")

\* DeleteProbeCb without args.rev = rev
DeleteProbeCb_NoStamp(op, err, exists, rev) ==
    IF Truthy(err) THEN UserCb(op, err, Undef, Undef)
    ELSE Client(op, "DELETE", op.path, op.args, "user")

\* the callback delete passes to exists, on the force path
DeleteProbeCb(op, err, exists, rev) ==
    IF Truthy(err) THEN UserCb(op, err, Undef, Undef)
    ELSE LET op1 == IF Truthy(exists) THEN [op EXCEPT !.args.f["rev"] = rev] ELSE op
         IN  Client(op1, "DELETE", op1.path, op1.args, "user")

\* CouchDB.prototype.createDB
CreateDBCall(op, cont) == Client(op, "PUT", <<>>, Null, cont)

\* EnsureCb creating the database whatever the probe reported
EnsureCb_AlwaysCreate(op, err, exists) ==
    IF Truthy(err) THEN UserCb(op, err, ThatRef, Undef)
    ELSE CreateDBCall(op, "user")

\* the callback ensureDB passes to exists
EnsureCb(op, err, exists) ==
    IF Truthy(err) \/ Truthy(exists) THEN UserCb(op, err, ThatRef, Undef)
    ELSE CreateDBCall(op, "user")

\* what exists reports to the callback it was given
ProbeReport(op, cont, err, exists, rev) ==
    LET op1 == [op EXCEPT !.probe = [n |-> @.n + 1, err |-> err, a1 |-> exists, a2 |-> rev]]
    IN  CASE cont = "exists_user" -> UserCb(op1, err, exists, rev)
          [] cont = "exists_save" -> SaveProbeCb(op1, err, exists, rev)
          [] cont = "exists_delete" -> DeleteProbeCb(op1, err, exists, rev)
          [] OTHER -> EnsureCb(op1, err, exists)

\* EtagRev leaving the revision undefined when there is no entity tag
EtagRev_UndefWhenAbsent(etag) ==
    IF Truthy(etag) THEN Str(Substr(etag.s, 1, Len(etag.s) - 2)) ELSE Undef

\* EtagRev taking one character too many: substr(1, length - 1)
EtagRev_OffByOne(etag) ==
    IF Truthy(etag) THEN Str(Substr(etag.s, 1, Len(etag.s) - 1)) ELSE Null

\* the revision exists derives from the entity tag
EtagRev(etag) ==
    IF Truthy(etag) THEN Str(Substr(etag.s, 1, Len(etag.s) - 2)) ELSE Null

\* ExistsCb without the exemption of status 404
ExistsCb_No404(op, cont, err, data, res) ==
    IF Truthy(err) THEN ProbeReport(op, cont, err, Undef, Undef)
    ELSE IF res.t # "response" THEN Throw(op)
    ELSE ProbeReport(op, cont, Null, JsBool(res.statusCode = 200), EtagRev(res.etag))

\* ExistsCb treating every response as a result: only a missing response is an error
ExistsCb_AnyStatus(op, cont, err, data, res) ==
    IF res.t # "response" THEN ProbeReport(op, cont, err, Undef, Undef)
    ELSE ProbeReport(op, cont, Null, JsBool(res.statusCode = 200), EtagRev(res.etag))

\* the callback exists passes to client
ExistsCb(op, cont, err, data, res) ==
    LET status == IF res.t = "response" THEN res.statusCode ELSE -1
    IN  IF status # 404 /\ Truthy(err) THEN ProbeReport(op, cont, err, Undef, Undef)
        ELSE IF res.t # "response" THEN Throw(op)
        ELSE ProbeReport(op, cont, Null, JsBool(status = 200), EtagRev(res.etag))

Callback(op, cont, err, data, res) ==
    CASE cont = "user" -> UserCb(op, err, data, res)
      [] cont = "save_write" -> SaveWriteCb(op, err, data)
      [] OTHER -> ExistsCb(op, cont, err, data, res)

\* CouchDB.prototype.exists
ExistsCall(op, id, cont) == Client(op, "HEAD", OrElse(id, Str(<<>>)).s, Null, cont)

\* OnEnd building the status error whatever the body holds
OnEnd_StatusOnly(op, cont, response) ==
    IF response.body.t # "empty" /\ ParseThrows(response.body) THEN Throw(op)
    ELSE LET data == IF response.body.t # "empty" THEN JsonParse(response.body) ELSE Null
         IN  IF response.statusCode >= 300
             THEN Callback(op, cont, StatusError(response), data, response)
             ELSE Callback(op, cont, Null, data, response)

\* the handler of the response's 'end' event
OnEnd(op, cont, response) ==
    IF response.body.t # "empty" /\ ParseThrows(response.body) THEN Throw(op)
    ELSE LET data == IF response.body.t # "empty" THEN JsonParse(response.body) ELSE Null
         IN  IF response.statusCode >= 300
             THEN IF Truthy(data) /\ Truthy(Member(data, "error"))
                  THEN Callback(op, cont, ServerError(data, response), data, response)
                  ELSE Callback(op, cont, StatusError(response), data, response)
             ELSE Callback(op, cont, Null, data, response)

(***************************************************************************)
(* The server: one database holding at most one document, DocId, with      *)
(* optimistic concurrency on its revision.                                 *)
(***************************************************************************)
EtagOf(rev) == <<Quote>> \o rev \o <<Quote>>

ErrBody(code, reason) ==
    JsonText(Obj([NoFields EXCEPT !["error"] = Str(<<code>>), !["reason"] = Str(<<reason>>)]))
OkBody(id, rev) ==
    JsonText(Obj([NoFields EXCEPT !["ok"] = JsTrue, !["id"] = Str(id), !["rev"] = Str(rev)]))
ErrOnlyBody(code) == JsonText(Obj([NoFields EXCEPT !["error"] = Str(<<code>>)]))
ConflictBody == ErrBody("conflict", "Document update conflict.")
MissingBody == ErrBody("not_found", "missing")

NoStore == [db |-> FALSE, doc |-> FALSE, n |-> 0, body |-> Null]

Reply(st, status, etag, body) == [store |-> st, resp |-> Response(status, etag, body)]

\* the part of the request's path below the database
Target(req) == SubSeq(req.path, Len(Pathname) + 2, Len(req.path))

\* the document as stored under a new revision
Stored(st, f) ==
    [st EXCEPT !.doc = TRUE, !.n = @ + 1,
               !.body = Obj([f EXCEPT !["_id"] = Str(DocId), !["_rev"] = Str(Rev(st.n + 1))])]

\* a write of the document: accepted only with the current revision, or with none
\* when there is no document
WriteDoc(st, body) ==
    IF body.t # "json" \/ body.v.t # "object"
    THEN Reply(st, 400, Undef, ErrBody("bad_request", "invalid UTF-8 JSON"))
    ELSE LET rev == body.v.f["_rev"]
         IN  IF (st.doc /\ rev = Str(Rev(st.n))) \/ (~st.doc /\ rev = Undef)
             THEN Reply(Stored(st, body.v.f), 201, Str(EtagOf(Rev(st.n + 1))),
                        OkBody(DocId, Rev(st.n + 1)))
             ELSE Reply(st, 409, Undef, ConflictBody)

DeleteDoc(st, rev) ==
    IF ~st.doc THEN Reply(st, 404, Undef, MissingBody)
    ELSE IF rev = Str(Rev(st.n))
    THEN Reply([st EXCEPT !.doc = FALSE, !.n = @ + 1, !.body = Null], 200,
               Str(EtagOf(Rev(st.n + 1))), OkBody(DocId, Rev(st.n + 1)))
    ELSE Reply(st, 409, Undef, ConflictBody)

\* what the server does with a request, and what it answers
Handle(st, req) ==
    LET target == Target(req)
        noDb == Reply(st, 404, Undef, ErrBody("not_found", "no_db_file"))
    IN  IF target = <<>>
        THEN CASE req.method = "HEAD" ->
                    Reply(st, IF st.db THEN 200 ELSE 404, Undef, EmptyText)
               [] req.method = "GET" ->
                    IF st.db THEN Reply(st, 200, Undef, JsonText(Obj(NoFields))) ELSE noDb
               [] req.method = "PUT" ->
                    IF st.db
                    THEN Reply(st, 412, Undef, ErrBody("file_exists", "exists"))
                    ELSE Reply([st EXCEPT !.db = TRUE], 201, Undef,
                               JsonText(Obj([NoFields EXCEPT !["ok"] = JsTrue])))
               [] req.method = "POST" -> IF st.db THEN WriteDoc(st, req.body) ELSE noDb
               [] OTHER -> IF st.db THEN Reply(NoStore, 200, Undef,
                               JsonText(Obj([NoFields EXCEPT !["ok"] = JsTrue])))
                           ELSE noDb
        ELSE IF ~st.db THEN noDb
        ELSE IF target # DocId THEN Reply(st, 404, Undef, MissingBody)
        ELSE CASE req.method = "HEAD" ->
                    IF st.doc THEN Reply(st, 200, Str(EtagOf(Rev(st.n))), EmptyText)
                    ELSE Reply(st, 404, Undef, EmptyText)
               [] req.method = "GET" ->
                    IF st.doc THEN Reply(st, 200, Str(EtagOf(Rev(st.n))), JsonText(st.body))
                    ELSE Reply(st, 404, Undef, MissingBody)
               [] req.method = "PUT" -> WriteDoc(st, req.body)
               [] req.method = "DELETE" -> DeleteDoc(st, req.query.f["rev"])
               [] OTHER -> Reply(st, 405, Undef, ErrBody("method_not_allowed", "PUT only"))

\* the server can take the request: its revision numbers and its one document
\* identifier are not used up
CanHandle(st, req) ==
    /\ Handle(st, req).store.n <= MaxRev
    /\ (req.method = "POST" /\ Target(req) = <<>>) => (st.n = 0)

\* answers of a server that is failing, or that is no CouchDB: any status with
\* any entity tag (a probe) or any body (the other requests)
Statuses == {200, 201, 404, 409, 500}
Etags == {Undef, Str(EtagOf(Rev(1)))}
Bodies ==
    {EmptyText, InvalidText, JsonText(Null), OkBody(DocId, Rev(2)), ConflictBody,
     ErrOnlyBody("forbidden"), JsonText(Obj(NoFields))}

AnyResponses(method) ==
    IF method = "HEAD"
    THEN {Response(st, e, EmptyText) : st \in Statuses, e \in Etags}
    ELSE {Response(st, Undef, b) : st \in Statuses, b \in Bodies}

(***************************************************************************)
(* The operations, as the caller invokes them                              *)
(***************************************************************************)
\* the documents a caller passes: with or without a revision, encodable or not
Docs ==
    {[t |-> "object", f |-> [NoFields EXCEPT !["name"] = Str(NameX), !["_rev"] = r],
      cyclic |-> c] : r \in {Undef, Str(Rev(1))}, c \in BOOLEAN}

IdArgs == {Undef, Str(DocId)}
RevArgs == {Undef, Str(Rev(1))}

\* what a caller keeps of an operation it has finished: that it ran ensureDB, or
\* the document it created with a save without id, with the id and revision it
\* was told
NoHist == [kind |-> "none", id |-> Undef, rev |-> Undef, doc |-> Undef]

Remember(op) ==
    CASE op.kind = "ensureDB" -> [NoHist EXCEPT !.kind = "ensureDB"]
      [] /\ op.kind = "save"
         /\ op.id = Undef
         /\ op.cb.err = Null
         /\ ~op.stale
         /\ op.resps # <<>>
         /\ op.resps[Len(op.resps)].faithful ->
            [kind |-> "save",
             id |-> IF op.force THEN op.doc.f["_id"] ELSE Member(op.cb.a1, "id"),
             rev |-> IF op.force THEN op.doc.f["_rev"] ELSE Member(op.cb.a1, "rev"),
             doc |-> op.doc0]
      [] OTHER -> NoHist

Begin(kind, id, force) == [Idle EXCEPT !.kind = kind, !.id = id, !.force = force]

\* no request of the operation is awaiting its response
Quiet(op) == \A i \in 1..Len(op.resps) : op.resps[i] # Pending

\* exists(id, callback)
Exists(o) ==
    /\ ops[o].kind = "idle"
    /\ \E id \in IdArgs :
         ops' = [ops EXCEPT ![o] = ExistsCall(Begin("exists", id, FALSE), id, "exists_user")]
    /\ UNCHANGED <<instance, store, hist>>

\* get(id, callback) and get(id, data, callback)
Get(o) ==
    /\ ops[o].kind = "idle"
    /\ \E data \in {Null, Obj([NoFields EXCEPT !["rev"] = Str(Rev(1))])} :
         ops' = [ops EXCEPT ![o] =
                    Client(Begin("get", Str(DocId), FALSE), "GET",
                           OrElse(Str(DocId), Str(<<>>)).s, data, "user")]
    /\ UNCHANGED <<instance, store, hist>>

\* save(id, doc, options, callback)
Save(o) ==
    /\ ops[o].kind = "idle"
    /\ \E id \in IdArgs, doc \in Docs, force \in BOOLEAN :
         LET op == [Begin("save", id, force) EXCEPT
                       !.doc = doc, !.doc0 = doc,
                       !.method = IF Truthy(id) THEN "PUT" ELSE "POST",
                       !.path = OrElse(id, Str(<<>>)).s]
         IN  ops' = [ops EXCEPT ![o] =
                        IF force THEN ExistsCall(op, id, "exists_save")
                        ELSE Client(op, op.method, op.path, doc, "user")]
    /\ UNCHANGED <<instance, store, hist>>

\* delete(id, rev, options, callback)
Delete(o) ==
    /\ ops[o].kind = "idle"
    /\ \E rev \in RevArgs, force \in BOOLEAN :
         LET id == Str(DocId)
             op == [Begin("delete", id, force) EXCEPT
                       !.rev = rev,
                       !.args = Obj(IF Truthy(rev) THEN [NoFields EXCEPT !["rev"] = rev]
                                    ELSE NoFields),
                       !.path = OrElse(id, Str(<<>>)).s]
         IN  ops' = [ops EXCEPT ![o] =
                        IF force THEN ExistsCall(op, id, "exists_delete")
                        ELSE Client(op, "DELETE", op.path, op.args, "user")]
    /\ UNCHANGED <<instance, store, hist>>

\* ensureDB(callback)
EnsureDB(o) ==
    /\ ops[o].kind = "idle"
    /\ ops' = [ops EXCEPT ![o] =
                  ExistsCall(Begin("ensureDB", Undef, FALSE), Str(<<>>), "exists_ensure")]
    /\ UNCHANGED <<instance, store, hist>>

\* createDB(callback)
CreateDB(o) ==
    /\ ops[o].kind = "idle"
    /\ ops' = [ops EXCEPT ![o] = CreateDBCall(Begin("createDB", Undef, FALSE), "user")]
    /\ UNCHANGED <<instance, store, hist>>

\* client('PUT', id, data, callback), called by the application itself
ClientPut(o) ==
    /\ ops[o].kind = "idle"
    /\ \E data \in Docs \cup {Str(<<"{", "}">>)} :
         ops' = [ops EXCEPT ![o] =
                    Client([Begin("client", Str(DocId), FALSE) EXCEPT !.doc = data, !.doc0 = data],
                           "PUT", DocId, data, "user")]
    /\ UNCHANGED <<instance, store, hist>>

(***************************************************************************)
(* The transport and the server                                            *)
(***************************************************************************)
\* the response as the client reads it: a response to HEAD has no body
Received(req, resp) ==
    IF req.method = "HEAD" THEN [resp EXCEPT !.body = EmptyText] ELSE resp

\* request i of o reaches the server, which acts on it; its response ends
Serve(o) ==
    \E i \in 1..Len(ops[o].reqs) :
        /\ ops[o].resps[i] = Pending
        /\ CanHandle(store, ops[o].reqs[i])
        /\ LET req == ops[o].reqs[i]
               h == Handle(store, req)
               res == Received(req, h.resp)
           IN  /\ store' = h.store
               /\ UNCHANGED <<instance, hist>>
               /\ ops' = [ops EXCEPT ![o] =
                             OnEnd([@ EXCEPT !.resps[i] = Ended(res, TRUE)], req.cont, res)]

\* request i of o is answered by a server that fails or is no CouchDB
Misserve(o) ==
    \E i \in 1..Len(ops[o].reqs) :
        /\ ops[o].resps[i] = Pending
        /\ \E res \in AnyResponses(ops[o].reqs[i].method) :
             ops' = [ops EXCEPT ![o] =
                        OnEnd([@ EXCEPT !.resps[i] = Ended(res, FALSE)],
                              ops[o].reqs[i].cont, res)]
        /\ UNCHANGED <<instance, store, hist>>

\* the connection of request i of o fails: the client emits 'error'
TransportError(o) ==
    \E i \in 1..Len(ops[o].reqs) :
        /\ ops[o].resps[i] = Pending
        /\ ops' = [ops EXCEPT ![o] =
                      Callback([@ EXCEPT !.resps[i] = Failed], ops[o].reqs[i].cont,
                               SocketError, Undef, Undef)]
        /\ UNCHANGED <<instance, store, hist>>

\* another client writes the document
OtherWrite ==
    /\ store.db
    /\ store.n < MaxRev
    /\ store' = Stored(store, [NoFields EXCEPT !["name"] = Str(NameY)])
    /\ hist' = [o \in OpIds |-> NoHist]
    /\ UNCHANGED instance
    /\ ops' = [o \in OpIds |->
                  IF ~Quiet(ops[o]) THEN [ops[o] EXCEPT !.raced = TRUE]
                  ELSE IF ops[o].kind # "idle" THEN [ops[o] EXCEPT !.stale = TRUE]
                  ELSE ops[o]]

\* the caller, called back, is free to start its next operation
Return(o) ==
    /\ ops[o].kind # "idle"
    /\ ops[o].cb.n > 0
    /\ ~ops[o].threw
    /\ Quiet(ops[o])
    /\ ops' = [ops EXCEPT ![o] = Idle]
    /\ hist' = [hist EXCEPT ![o] = Remember(ops[o])]
    /\ UNCHANGED <<instance, store>>

\* the client of request i of o emits 'error' after the request had its response,
\* or after an earlier 'error'
LateError(o) ==
    \E i \in 1..Len(ops[o].reqs) :
        /\ ops[o].resps[i] # Pending
        /\ ops[o].late < MaxLate
        /\ ops' = [ops EXCEPT ![o] =
                      Callback([@ EXCEPT !.late = @ + 1], ops[o].reqs[i].cont,
                               SocketError, Undef, Undef)]
        /\ UNCHANGED <<instance, store, hist>>

DefaultUrl == [protocol |-> "http:", port |-> Str(NamedPort)]

Init ==
    /\ instance = CouchDB(DefaultUrl)
    /\ store = NoStore
    /\ ops = [o \in OpIds |-> Idle]
    /\ hist = [o \in OpIds |-> NoHist]

Next ==
    \/ \E o \in Solo :
        \/ Exists(o)
        \/ Get(o)
        \/ Save(o)
        \/ Delete(o)
        \/ EnsureDB(o)
        \/ CreateDB(o)
        \/ ClientPut(o)
        \/ Serve(o)
        \/ Misserve(o)
        \/ TransportError(o)
        \/ Return(o)
    \/ OtherWrite

\* one caller at a time, every request with one transport event
Spec == Init /\ [][Next]_vars

\* the same, with a client constructed from any of the base URLs
InitUrl ==
    /\ instance \in {CouchDB(u) : u \in BaseUrls}
    /\ store = NoStore
    /\ ops = [o \in OpIds |-> Idle]
    /\ hist = [o \in OpIds |-> NoHist]

SpecUrl == InitUrl /\ [][Next]_vars

\* the same, with a transport that may emit 'error' for a request again
NextEvents ==
    \/ Next
    \/ \E o \in Solo : LateError(o)

SpecEvents == Init /\ [][NextEvents]_vars

\* two callers, each ensuring or creating the database
NextPair ==
    \E o \in OpIds :
        \/ EnsureDB(o)
        \/ CreateDB(o)
        \/ Serve(o)
        \/ Misserve(o)
        \/ TransportError(o)
        \/ Return(o)

SpecPair == Init /\ [][NextPair]_vars

(***************************************************************************)
(* Vocabulary of the properties                                            *)
(***************************************************************************)
\* the operation began with a probe: its first request is the HEAD of exists
Probing(op) ==
    \/ op.kind \in {"exists", "ensureDB"}
    \/ op.kind \in {"save", "delete"} /\ op.force

\* the operation hands its callback straight to the request executor
Direct(op) ==
    \/ op.kind \in {"get", "createDB", "client"}
    \/ op.kind \in {"save", "delete"} /\ ~op.force

\* response i of the operation has ended
EndedAt(op, i) == Len(op.resps) >= i /\ op.resps[i].ev = "end"

\* the probe reported a result, not an error
ProbeResult(op) == Probing(op) /\ op.probe.n > 0 /\ op.probe.err = Null

\* an error built from the server's error code and reason
IsDatabaseError(e) == e.t = "error" /\ e.error # Undef

\* an error that carries only the numeric status
IsStatusFailure(e, status) ==
    /\ e.t = "error"
    /\ e.error = Undef
    /\ e.message = Str(<<"Status code: ", ToString(status)>>)

\* the body is JSON and names an error code
HasErrorCode(body) ==
    /\ body.t = "json"
    /\ body.v.t = "object"
    /\ body.v.f["error"].t = "string"
    /\ body.v.f["error"].s # <<>>

\* a quoted string without its quotes
Unquote(s) ==
    IF Len(s) >= 2 /\ s[1] = Quote /\ s[Len(s)] = Quote
    THEN [i \in 1..(Len(s) - 2) |-> s[i + 1]]
    ELSE s

\* a string without its first and its last character
DropEnds(s) == [i \in 1..(Len(s) - 2) |-> s[i + 1]]

\* the revision member of the document a write request carries
CarriedRev(req) == req.body.v.f["_rev"]

(***************************************************************************)
(* Properties                                                              *)
(***************************************************************************)
\* every request of the operation was answered by the server acting on it
Faithful(op) ==
    \A i \in 1..Len(op.resps) : op.resps[i].ev = "end" /\ op.resps[i].faithful

\* the caller was told (err, a1, a2), once
Told(op, err, a1, a2) == op.cb = [n |-> 1, err |-> err, a1 |-> a1, a2 |-> a2]

\* C1: a save with force and an id, whose probe reported that the document exists
\* with revision R, has issued its write (unless doc cannot be encoded) and the
\* document in that request carries R, whatever revision doc held at the call.
C1_ForceSaveWritesProbedRevision ==
    \A o \in OpIds :
        LET op == ops[o]
        IN  (op.kind = "save" /\ op.force /\ Truthy(op.id)
                /\ ProbeResult(op) /\ op.probe.a1 = JsTrue)
            => IF op.doc0.cyclic THEN Len(op.reqs) = 1
               ELSE /\ Len(op.reqs) = 2
                    /\ op.reqs[2].method = "PUT"
                    /\ op.reqs[2].body.t = "json"
                    /\ CarriedRev(op.reqs[2]) = op.probe.a2

\* C1 witness: doc came with revision 1-a, the probe reported 2-a, the write carries 2-a
C1_Witness ==
    \E o \in OpIds :
        /\ ops[o].kind = "save" /\ ops[o].force /\ Truthy(ops[o].id)
        /\ ops[o].doc0.f["_rev"] = Str(Rev(1))
        /\ ProbeResult(ops[o]) /\ ops[o].probe.a1 = JsTrue
        /\ ops[o].probe.a2 = Str(Rev(2))
        /\ Len(ops[o].reqs) = 2
        /\ CarriedRev(ops[o].reqs[2]) = Str(Rev(2))

\* C2: against the server's revision check, (a) a delete without force that carries
\* a revision other than the document's current one is answered with a conflict
\* and reports a DatabaseError, the document staying; (b) a delete with force whose
\* probe found the document at revision R sends R instead of the caller's stale
\* revision, and, both requests served with no other write in between, succeeds.
C2_DeleteStaleFailsForceSucceeds ==
    [][\A o \in OpIds :
        LET op == ops[o]
            op2 == ops'[o]
        IN  /\ (/\ op.kind = "delete" /\ ~op.force
                /\ Len(op.reqs) = 1 /\ op.resps[1] = Pending
                /\ op2.resps[1].ev = "end" /\ op2.resps[1].faithful
                /\ store.db /\ store.doc /\ op.rev # Str(Rev(store.n)))
               => /\ op2.cb.n = 1
                  /\ IsDatabaseError(op2.cb.err)
                  /\ op2.cb.err.error = Str(<<"conflict">>)
                  /\ store' = store
            /\ (/\ op2.kind = "delete" /\ op2.force
                /\ ProbeResult(op2) /\ op2.probe.a1 = JsTrue
                /\ op2.resps[1].faithful)
               => /\ Len(op2.reqs) = 2
                  /\ op2.probe.a2.t = "string"
                  /\ op2.reqs[2].query.f["rev"] = op2.probe.a2
                  /\ (/\ EndedAt(op2, 2) /\ op2.resps[2].faithful
                      /\ ~op2.raced)
                     => op2.cb.n = 1 /\ op2.cb.err = Null]_vars

\* C2 witness: a delete with force called with the stale 1-a, whose probe found
\* 2-a, has succeeded and the document is gone
C2_Witness ==
    \E o \in OpIds :
        /\ ops[o].kind = "delete" /\ ops[o].force
        /\ ops[o].rev = Str(Rev(1))
        /\ ops[o].probe.a2 = Str(Rev(2))
        /\ EndedAt(ops[o], 2) /\ ops[o].resps[2].faithful
        /\ ops[o].cb.n = 1 /\ ops[o].cb.err = Null
        /\ ~store.doc

\* the first half of C2 happens: a delete without force, carrying the stale 1-a
\* while the document is at 2-a, was served and has reported the conflict
C2_WitnessStale ==
    \E o \in OpIds :
        /\ ops[o].kind = "delete" /\ ~ops[o].force
        /\ ops[o].rev = Str(Rev(1))
        /\ store.doc /\ store.n = 2
        /\ EndedAt(ops[o], 1) /\ ops[o].resps[1].faithful
        /\ ops[o].resps[1].res.statusCode = 409
        /\ IsDatabaseError(ops[o].cb.err)

\* C3: force is not atomic and is not retried: a save or delete with force whose
\* write the server answered with a conflict reports that conflict to the caller
\* and issues no further request.  The witness is the interleaving itself.
C3_ForceConflictReportedNotRetried ==
    \A o \in OpIds :
        LET op == ops[o]
        IN  (/\ op.kind \in {"save", "delete"} /\ op.force
             /\ EndedAt(op, 2) /\ op.resps[2].faithful
             /\ op.resps[2].res.statusCode = 409)
            => /\ op.cb.n = 1
               /\ IsDatabaseError(op.cb.err)
               /\ op.cb.err.error = Str(<<"conflict">>)
               /\ Len(op.reqs) = 2

\* C3 witness: the probe of a save with force was served and reported the current
\* revision, another client wrote the document, and the write, stamped with the
\* probed revision, drew a conflict
C3_Witness ==
    \E o \in OpIds :
        LET op == ops[o]
        IN  /\ op.kind = "save" /\ op.force
            /\ EndedAt(op, 1) /\ op.resps[1].faithful
            /\ op.probe.a1 = JsTrue
            /\ op.raced
            /\ EndedAt(op, 2) /\ op.resps[2].faithful
            /\ CarriedRev(op.reqs[2]) = op.probe.a2
            /\ op.probe.a2 # Str(Rev(store.n))
            /\ op.resps[2].res.statusCode = 409
            /\ op.cb.n = 1 /\ IsDatabaseError(op.cb.err)

\* the same interleaving for a delete with force
C3_WitnessDelete ==
    \E o \in OpIds :
        LET op == ops[o]
        IN  /\ op.kind = "delete" /\ op.force
            /\ EndedAt(op, 1) /\ op.resps[1].faithful
            /\ op.probe.a1 = JsTrue
            /\ op.raced
            /\ EndedAt(op, 2) /\ op.resps[2].faithful
            /\ op.reqs[2].query.f["rev"] = op.probe.a2
            /\ op.resps[2].res.statusCode = 409
            /\ op.cb.n = 1 /\ IsDatabaseError(op.cb.err)

\* the value the request executor hands over as the parsed body of a response
ParsedBody(res) == IF res.body.t = "json" THEN res.body.v ELSE Null

\* C4 (as claimed): every save that reported success, with force or without, the
\* server having stored the document, has put the id and rev of the server's
\* response into the caller's doc and has reported that very object.
C4_SaveUpdatesAndReturnsDoc ==
    \A o \in OpIds :
        LET op == ops[o]
            last == op.resps[Len(op.resps)]
            d == ParsedBody(last.res)
        IN  (op.kind = "save" /\ op.cb.n > 0 /\ op.cb.err = Null /\ last.faithful)
            => /\ op.cb.a1 = DocRef
               /\ op.doc.f["_id"] = Member(d, "id")
               /\ op.doc.f["_rev"] = Member(d, "rev")

\* C5 (as claimed): a probe answered with status 404 reports no error and the
\* result exists = false, revision = null.
C5_Probe404NullRevision ==
    \A o \in OpIds :
        LET op == ops[o]
        IN  (Probing(op) /\ EndedAt(op, 1) /\ op.resps[1].res.statusCode = 404)
            => /\ op.probe.n = 1
               /\ op.probe.err = Null
               /\ op.probe.a1 = JsFalse
               /\ op.probe.a2 = Null

\* C5 (amended): a probe answered with status 404 reports no error and exists =
\* false; its revision is null when the response has no entity tag, and the tag
\* without its first and last character, its quotes, when it has one.  The request executor reports the same
\* status as an error to an operation that hands it its callback.
C5_Probe404NoError ==
    \A o \in OpIds :
        LET op == ops[o]
            res == op.resps[1].res
        IN  /\ (Probing(op) /\ EndedAt(op, 1) /\ res.statusCode = 404)
               => /\ op.probe.n = 1
                  /\ op.probe.err = Null
                  /\ op.probe.a1 = JsFalse
                  /\ (res.etag = Undef => op.probe.a2 = Null)
                  /\ (res.etag # Undef => op.probe.a2 = Str(DropEnds(res.etag.s)))
            /\ (Direct(op) /\ EndedAt(op, 1) /\ res.statusCode = 404 /\ ~op.threw)
               => op.cb.n = 1 /\ Truthy(op.cb.err)

\* C5 witness: exists(id) answered 404 without entity tag has called back with
\* (null, false, null)
C5_Witness ==
    \E o \in OpIds :
        /\ ops[o].kind = "exists"
        /\ EndedAt(ops[o], 1)
        /\ ops[o].resps[1].res.statusCode = 404
        /\ ops[o].resps[1].res.etag = Undef
        /\ ops[o].cb = [n |-> 1, err |-> Null, a1 |-> JsFalse, a2 |-> Null]

\* C6: a probe that reported a result reported exists = true exactly when the
\* status was 200, and as revision the entity tag without its surrounding quotes,
\* or null when the response had no entity tag.
C6_ProbeResultFromStatusAndEtag ==
    \A o \in OpIds :
        LET op == ops[o]
            res == op.resps[1].res
        IN  ProbeResult(op)
            => /\ EndedAt(op, 1)
               /\ op.probe.a1 = JsBool(res.statusCode = 200)
               /\ op.probe.a2 = IF res.etag = Undef THEN Null
                                ELSE Str(Unquote(res.etag.s))

\* C6 witness: status 200 with entity tag "3-a" (quoted) gave exists = true and
\* revision 3-a
C6_Witness ==
    \E o \in OpIds :
        /\ ops[o].kind = "exists"
        /\ EndedAt(ops[o], 1)
        /\ ops[o].resps[1].res.statusCode = 200
        /\ ops[o].resps[1].res.etag = Str(<<Quote, "3", "-", "a", Quote>>)
        /\ ops[o].cb = [n |-> 1, err |-> Null, a1 |-> JsTrue, a2 |-> Str(<<"3", "-", "a">>)]

\* C7: a probe whose response had a status of 300 or more other than 404, or whose
\* connection failed, reported an error and neither exists nor revision.
C7_ProbeReportsOtherFailures ==
    \A o \in OpIds :
        LET op == ops[o]
            res == op.resps[1].res
        IN  /\ (Probing(op) /\ EndedAt(op, 1)
                    /\ res.statusCode >= 300 /\ res.statusCode # 404)
               => /\ op.probe.n = 1
                  /\ Truthy(op.probe.err)
                  /\ IsStatusFailure(op.probe.err, res.statusCode)
                  /\ op.probe.a1 = Undef /\ op.probe.a2 = Undef
            /\ (Probing(op) /\ Len(op.resps) >= 1 /\ op.resps[1] = Failed)
               => /\ op.probe.n = 1
                  /\ op.probe.err = SocketError
                  /\ op.probe.a1 = Undef /\ op.probe.a2 = Undef

\* C7 witness: exists(id) answered 500 has called back with an error alone
C7_Witness ==
    \E o \in OpIds :
        /\ ops[o].kind = "exists"
        /\ EndedAt(ops[o], 1)
        /\ ops[o].resps[1].res.statusCode = 500
        /\ ops[o].cb.n = 1 /\ Truthy(ops[o].cb.err)
        /\ ops[o].cb.a1 = Undef /\ ops[o].cb.a2 = Undef

\* the same for a connection that failed
C7_WitnessTransport ==
    \E o \in OpIds :
        /\ ops[o].kind = "exists"
        /\ ops[o].resps = <<Failed>>
        /\ ops[o].cb = [n |-> 1, err |-> SocketError, a1 |-> Undef, a2 |-> Undef]

\* C8: for a response with a status of 300 or more, a body that names an error
\* code makes the request executor report a DatabaseError with that code and the
\* body's reason, beside the parsed body; it reports the failure that carries
\* only the status exactly when the body, parsed, names no error code.
C8_ServerErrorPreferred ==
    \A o \in OpIds :
        LET op == ops[o]
            res == op.resps[1].res
        IN  (Direct(op) /\ EndedAt(op, 1) /\ res.statusCode >= 300 /\ ~op.threw)
            => /\ op.cb.n = 1
               /\ op.cb.a1 = ParsedBody(res)
               /\ op.cb.a2 = res
               /\ IF HasErrorCode(res.body)
                  THEN /\ IsDatabaseError(op.cb.err)
                       /\ op.cb.err.error = res.body.v.f["error"]
                       /\ op.cb.err.reason = res.body.v.f["reason"]
                       /\ ~IsStatusFailure(op.cb.err, res.statusCode)
                  ELSE IsStatusFailure(op.cb.err, res.statusCode)

\* C8 witness: 409 with {"error":"conflict","reason":"Document update conflict."}
\* was reported as a DatabaseError with that code and reason
C8_Witness ==
    \E o \in OpIds :
        /\ Direct(ops[o])
        /\ EndedAt(ops[o], 1)
        /\ ops[o].resps[1].res.statusCode = 409
        /\ ops[o].resps[1].res.body = ConflictBody
        /\ ops[o].cb.n = 1
        /\ ops[o].cb.err.error = Str(<<"conflict">>)
        /\ ops[o].cb.err.reason = Str(<<"Document update conflict.">>)

\* C9 (as claimed): for every response with a status below 300 the request
\* executor reports no error and the parsed body, null for an empty body.
C9_Below300IsSuccess ==
    \A o \in OpIds :
        LET op == ops[o]
            res == op.resps[1].res
        IN  (Direct(op) /\ EndedAt(op, 1) /\ res.statusCode < 300)
            => /\ op.cb.n = 1
               /\ op.cb.err = Null
               /\ op.cb.a1 = ParsedBody(res)

\* what holds of C9: the same for every body that is empty or is JSON
C9_Below300IsSuccessWhenParsed ==
    \A o \in OpIds :
        LET op == ops[o]
            res == op.resps[1].res
        IN  (Direct(op) /\ EndedAt(op, 1) /\ res.statusCode < 300
                /\ res.body.t \in {"empty", "json"})
            => /\ op.cb.n = 1
               /\ op.cb.err = Null
               /\ op.cb.a1 = ParsedBody(res)

\* the document handed to a write cannot be encoded
Unencodable(op) ==
    /\ op.kind \in {"save", "client"}
    /\ op.doc0.t = "object"
    /\ op.doc0.cyclic

\* C10 (as claimed): a write of a document that cannot be encoded reports the
\* serialization failure, and the operation has issued no request of any kind.
C10_UnencodableNoRequest ==
    \A o \in OpIds :
        (Unencodable(ops[o]) /\ ops[o].cb.n > 0 /\ ops[o].cb.err = StringifyError)
        => Len(ops[o].reqs) = 0

\* C10 (amended): a write of a document that cannot be encoded never issues its
\* write request.  The request executor, and save without force, report the
\* serialization failure having issued no request at all; save with force has
\* issued its probe, and reports the serialization failure once the probe has
\* reported a result.
C10_UnencodableNoWriteRequest ==
    \A o \in OpIds :
        LET op == ops[o]
        IN  Unencodable(op)
            => /\ \A i \in 1..Len(op.reqs) : op.reqs[i].method = "HEAD"
               /\ ~op.force
                  => op.reqs = <<>> /\ op.cb.n = 1 /\ op.cb.err = StringifyError
               /\ op.force
                  => /\ Len(op.reqs) = 1
                     /\ ProbeResult(op) => op.cb.n = 1 /\ op.cb.err = StringifyError
                     /\ op.cb.n > 0 => op.probe.n = 1

\* C10 witness: a save with force of such a document has reported the
\* serialization failure, its probe being the one request it issued
C10_Witness ==
    \E o \in OpIds :
        /\ Unencodable(ops[o])
        /\ ops[o].kind = "save" /\ ops[o].force
        /\ Len(ops[o].reqs) = 1 /\ ops[o].reqs[1].method = "HEAD"
        /\ ops[o].cb.n = 1 /\ ops[o].cb.err = StringifyError

\* the same without force: reported with no request issued
C10_WitnessNoForce ==
    \E o \in OpIds :
        /\ Unencodable(ops[o])
        /\ ~ops[o].force
        /\ ops[o].reqs = <<>>
        /\ ops[o].cb.n = 1 /\ ops[o].cb.err = StringifyError

\* C11: an ensureDB whose probe reported that the database exists issues no create
\* request and reports success; and an ensureDB called after an earlier ensureDB of
\* the same caller has reported, and answered by the server, reports success, never
\* a failure for the database existing already.
C11_EnsureDBIdempotent ==
    \A o \in OpIds :
        LET op == ops[o]
        IN  op.kind = "ensureDB" =>
              /\ (ProbeResult(op) /\ op.probe.a1 = JsTrue) =>
                    /\ Len(op.reqs) = 1
                    /\ Told(op, Null, ThatRef, Undef)
              /\ (hist[o].kind = "ensureDB" /\ Faithful(op)) =>
                    /\ op.cb.n = 1
                    /\ op.cb.err = Null
                    /\ store.db

\* a second ensureDB in sequence found the database and reported success with its
\* probe alone
C11_Witness ==
    \E o \in OpIds :
        /\ hist[o].kind = "ensureDB"
        /\ ops[o].kind = "ensureDB"
        /\ Faithful(ops[o])
        /\ ops[o].probe.a1 = JsTrue
        /\ Len(ops[o].reqs) = 1
        /\ Told(ops[o], Null, ThatRef, Undef)

\* C12: whatever transport events a request has (its response ending, 'error'
\* events, in any order and number), the caller's callback is invoked at most once
\* per operation, and an operation sends at most its probe and one other request.
C12_ReportsAtMostOnce ==
    \A o \in OpIds :
        /\ ops[o].cb.n <= 1
        /\ Len(ops[o].reqs) <= 2

\* C13: when the probe of a save or delete with force reported that the document
\* does not exist, the write is issued with the revision the caller supplied: the
\* document of the save's write request carries the revision doc held at the call
\* (none if it held none) and doc is as the caller passed it until the write
\* succeeds; the delete's request carries exactly the rev argument, or no rev.
C13_ProbeAbsentKeepsRevision ==
    \A o \in OpIds :
        LET op == ops[o]
        IN  (op.kind \in {"save", "delete"} /\ op.force /\ ProbeResult(op)
             /\ op.probe.a1 = JsFalse)
            => /\ (op.kind = "save" /\ Unencodable(op))
                  => Len(op.reqs) = 1 /\ op.doc = op.doc0
               /\ (op.kind = "save" /\ ~Unencodable(op))
                  => /\ Len(op.reqs) = 2
                     /\ op.reqs[2].method = op.method
                     /\ CarriedRev(op.reqs[2]) = op.doc0.f["_rev"]
                     /\ (op.cb.n = 0 \/ Truthy(op.cb.err)) => op.doc = op.doc0
               /\ op.kind = "delete"
                  => /\ Len(op.reqs) = 2
                     /\ op.reqs[2].method = "DELETE"
                     /\ op.reqs[2].query.f["rev"] = op.rev

\* a save with force of a doc that holds a revision: the probe reported that the
\* document does not exist, and the write request carries the revision doc held
C13_Witness ==
    \E o \in OpIds :
        /\ ops[o].kind = "save" /\ ops[o].force
        /\ ProbeResult(ops[o]) /\ ops[o].probe.a1 = JsFalse
        /\ ops[o].doc0.f["_rev"] = Str(Rev(1))
        /\ Len(ops[o].reqs) = 2
        /\ CarriedRev(ops[o].reqs[2]) = Str(Rev(1))

\* a delete with force and a rev argument: the probe reported that the document
\* does not exist, and the request carries the argument
C13_WitnessDelete ==
    \E o \in OpIds :
        /\ ops[o].kind = "delete" /\ ops[o].force
        /\ ProbeResult(ops[o]) /\ ops[o].probe.a1 = JsFalse
        /\ ops[o].rev = Str(Rev(1))
        /\ Len(ops[o].reqs) = 2
        /\ ops[o].reqs[2].query.f["rev"] = Str(Rev(1))

\* C14: once a save without id of a document B has reported success (the caller
\* was told the id and the revision the server assigned) and nobody else has
\* written since, a get of that id, answered by the server, reports no error and
\* the document B with the members _id and _rev set to that id and that revision.
C14_SaveThenGetRoundTrip ==
    \A o \in OpIds :
        LET op == ops[o]
            h == hist[o]
        IN  (h.kind = "save" /\ op.kind = "get" /\ op.id = h.id /\ ~op.raced
             /\ EndedAt(op, 1) /\ op.resps[1].faithful)
            => /\ op.cb.n = 1
               /\ op.cb.err = Null
               /\ op.cb.a1 = Obj([h.doc.f EXCEPT !["_id"] = h.id, !["_rev"] = h.rev])
               /\ h.id.t = "string" /\ h.rev.t = "string"

\* such a get has reported the document: the name the caller saved, under the id
\* and the revision the save returned
C14_Witness ==
    \E o \in OpIds :
        /\ hist[o].kind = "save"
        /\ hist[o].doc.f["name"] = Str(NameX)
        /\ ops[o].kind = "get" /\ ops[o].id = hist[o].id
        /\ EndedAt(ops[o], 1) /\ ops[o].resps[1].faithful
        /\ ops[o].cb.n = 1
        /\ Member(ops[o].cb.a1, "name") = Str(NameX)
        /\ Member(ops[o].cb.a1, "_id") = hist[o].id
        /\ Member(ops[o].cb.a1, "_rev") = hist[o].rev

\* the port of a base URL: the one it names, else 443 for https and 80 otherwise
PortOf(u) ==
    IF u.port # Undef THEN u.port
    ELSE IF u.protocol = "https:" THEN Num(443) ELSE Num(80)

\* C15: the client's port is set from construction on and is never unset: it is the
\* port the base URL names, or else 443 for an https URL and 80 for any other; every
\* request is sent to that port, and no operation changes the connection settings.
C15_PortResolvedAndKept ==
    /\ [](/\ instance.port \notin {Undef, Null}
          /\ instance.port = PortOf(instance.href)
          /\ \A o \in OpIds : \A i \in 1..Len(ops[o].reqs) :
                ops[o].reqs[i].port = PortOf(instance.href))
    /\ [][instance' = instance]_vars

\* a client of an https URL that names no port has had a request answered, sent to
\* port 443
C15_Witness ==
    \E o \in OpIds :
        /\ instance.href = [protocol |-> "https:", port |-> Undef]
        /\ instance.port = Num(443)
        /\ EndedAt(ops[o], 1)
        /\ ops[o].reqs[1].port = Num(443)
        /\ ops[o].cb.n = 1

\* a client of a URL that names its port has had a request answered, sent there
C15_WitnessNamed ==
    \E o \in OpIds :
        /\ instance.href.port = Str(NamedPort)
        /\ EndedAt(ops[o], 1)
        /\ ops[o].reqs[1].port = Str(NamedPort)

\* the requests of the operation that await their response
Outstanding(op) == {i \in 1..Len(op.resps) : op.resps[i] = Pending}

\* C16: the two requests of a save or delete with force are strictly sequential:
\* the write is sent only once the probe's response has ended and the probe has
\* reported a result, at most one request of the operation is outstanding at any
\* time, and when the probe reports an error the operation reports that error and
\* has sent nothing but the probe.
C16_ForceStepsSequential ==
    \A o \in OpIds :
        LET op == ops[o]
        IN  (op.kind \in {"save", "delete"} /\ op.force)
            => /\ Len(op.reqs) <= 2
               /\ Cardinality(Outstanding(op)) <= 1
               /\ Len(op.reqs) >= 1 => op.reqs[1].method = "HEAD"
               /\ Len(op.reqs) = 2
                  => /\ EndedAt(op, 1)
                     /\ ProbeResult(op)
                     /\ op.reqs[2].method # "HEAD"
               /\ (op.probe.n > 0 /\ Truthy(op.probe.err))
                  => /\ Len(op.reqs) = 1
                     /\ Told(op, op.probe.err, Undef, Undef)

\* the probe of a save with force has ended and its write is the one request
\* outstanding
C16_Witness ==
    \E o \in OpIds :
        /\ ops[o].kind = "save" /\ ops[o].force
        /\ Len(ops[o].reqs) = 2
        /\ EndedAt(ops[o], 1)
        /\ Outstanding(ops[o]) = {2}

\* the probe of a delete with force reported an error: the delete reported it and
\* sent no DELETE
C16_WitnessProbeError ==
    \E o \in OpIds :
        /\ ops[o].kind = "delete" /\ ops[o].force
        /\ Truthy(ops[o].probe.err)
        /\ Len(ops[o].reqs) = 1
        /\ Told(ops[o], ops[o].probe.err, Undef, Undef)

\* C17: once every request an operation has issued has had its complete response
\* or its transport error, the operation has reported a result or a failure to its
\* caller, whatever the status and the body of the responses, a body that is not
\* JSON included, and on both steps of an operation with force.
C17_EveryOperationReports ==
    \A o \in OpIds :
        (ops[o].kind # "idle" /\ Quiet(ops[o])) => ops[o].cb.n >= 1

\* the operation's probe was answered by the server that the database is absent
ProbedAbsent(op) ==
    /\ op.kind = "ensureDB"
    /\ EndedAt(op, 1) /\ op.resps[1].faithful
    /\ ProbeResult(op) /\ op.probe.a1 = JsFalse

\* C18: ensureDB is not atomic.  An ensureDB whose probe reported that the database
\* does not exist issues a create request whatever has happened since; when the
\* server answers that create with 412 file_exists, because the database was
\* created in between, the ensureDB reports a failure whose error code is
\* file_exists, and does nothing more.
C18_EnsureDBNotAtomic ==
    \A o \in OpIds :
        LET op == ops[o]
        IN  ProbedAbsent(op)
            => /\ Len(op.reqs) = 2
               /\ op.reqs[2].method = "PUT"
               /\ op.reqs[2].path = ResolvePath(<<>>)
               /\ (EndedAt(op, 2) /\ op.resps[2].faithful
                   /\ op.resps[2].res.statusCode = 412)
                  => /\ op.cb.n = 1
                     /\ IsDatabaseError(op.cb.err)
                     /\ op.cb.err.error = Str(<<"file_exists">>)
                     /\ op.cb.a1 = JsonParse(op.resps[2].res.body)

\* two concurrent ensureDB calls: both probes reported that the database does not
\* exist, both issued a create; one create succeeded and the other reported
\* file_exists
C18_Witness ==
    \E o1, o2 \in OpIds :
        /\ o1 # o2
        /\ ProbedAbsent(ops[o1]) /\ ProbedAbsent(ops[o2])
        /\ Len(ops[o1].reqs) = 2 /\ Len(ops[o2].reqs) = 2
        /\ EndedAt(ops[o1], 2) /\ ops[o1].resps[2].faithful
        /\ ops[o1].resps[2].res.statusCode = 201
        /\ ops[o1].cb.n = 1 /\ ops[o1].cb.err = Null
        /\ EndedAt(ops[o2], 2) /\ ops[o2].resps[2].faithful
        /\ ops[o2].resps[2].res.statusCode = 412
        /\ ops[o2].cb.n = 1
        /\ ops[o2].cb.err.error = Str(<<"file_exists">>)

\* C19: a save with force and without id probes the database's own path.  When
\* that probe is answered with status 200, doc's revision is overwritten before
\* the create request is sent: the document the POST carries, and doc itself until
\* the write succeeds, hold the root's entity tag without its first and last
\* character, or null when the response has no entity tag, whatever revision the
\* caller supplied.
C19_ForceSaveWithoutIdProbesRoot ==
    \A o \in OpIds :
        LET op == ops[o]
            res == op.resps[1].res
            stamped == IF res.etag = Undef THEN Null ELSE Str(DropEnds(res.etag.s))
        IN  (op.kind = "save" /\ op.force /\ op.id = Undef)
            => /\ Len(op.reqs) >= 1
               /\ op.reqs[1].method = "HEAD"
               /\ op.reqs[1].path = ResolvePath(<<>>)
               /\ (EndedAt(op, 1) /\ res.statusCode = 200)
                  => /\ (op.cb.n = 0 \/ Truthy(op.cb.err)) => op.doc.f["_rev"] = stamped
                     /\ ~Unencodable(op)
                        => /\ Len(op.reqs) = 2
                           /\ op.reqs[2].method = "POST"
                           /\ op.reqs[2].path = ResolvePath(<<>>)
                           /\ CarriedRev(op.reqs[2]) = stamped

\* the caller supplied a revision, the server answered the root probe with 200 and
\* no entity tag, and the create request carries a null revision
C19_Witness ==
    \E o \in OpIds :
        /\ ops[o].kind = "save" /\ ops[o].force /\ ops[o].id = Undef
        /\ ops[o].doc0.f["_rev"] = Str(Rev(1))
        /\ EndedAt(ops[o], 1) /\ ops[o].resps[1].faithful
        /\ ops[o].resps[1].res.statusCode = 200
        /\ Len(ops[o].reqs) = 2
        /\ ops[o].reqs[2].method = "POST"
        /\ CarriedRev(ops[o].reqs[2]) = Null

\* C20: a save with force that fails does not put doc back.  When the probe
\* reported that the document exists with revision R and the write then failed,
\* the caller is told the error and nothing else, doc's id is the one it held at
\* the call and doc's revision is R; when the probe itself failed, doc is as it
\* was at the call.
C20_FailedForceSaveKeepsProbedRevision ==
    \A o \in OpIds :
        LET op == ops[o]
        IN  (op.kind = "save" /\ op.force)
            => /\ (ProbeResult(op) /\ op.probe.a1 = JsTrue /\ op.cb.n > 0
                   /\ Truthy(op.cb.err))
                  => /\ Told(op, op.cb.err, Undef, Undef)
                     /\ op.doc.f["_id"] = op.doc0.f["_id"]
                     /\ op.doc.f["_rev"] = op.probe.a2
                     /\ op.doc.f["name"] = op.doc0.f["name"]
               /\ (op.probe.n > 0 /\ Truthy(op.probe.err))
                  => /\ op.doc = op.doc0
                     /\ Told(op, op.probe.err, Undef, Undef)

\* the server answered the probe with the document's revision, another client
\* wrote, and the write was refused: doc holds the probed revision, not the one
\* the caller put there
C20_Witness ==
    \E o \in OpIds :
        /\ ops[o].kind = "save" /\ ops[o].force
        /\ EndedAt(ops[o], 1) /\ ops[o].resps[1].faithful
        /\ ops[o].probe.a1 = JsTrue
        /\ EndedAt(ops[o], 2) /\ ops[o].resps[2].faithful
        /\ ops[o].resps[2].res.statusCode = 409
        /\ ops[o].cb.n = 1 /\ Truthy(ops[o].cb.err)
        /\ ops[o].doc.f["_rev"] = ops[o].probe.a2
        /\ ops[o].doc.f["_rev"] # ops[o].doc0.f["_rev"]

\* the probe failed and doc is untouched
C20_WitnessProbeFailed ==
    \E o \in OpIds :
        /\ ops[o].kind = "save" /\ ops[o].force
        /\ Truthy(ops[o].probe.err)
        /\ ops[o].cb.n = 1
        /\ ops[o].doc = ops[o].doc0

====
